---- MODULE Spec2Model ----
(***************************************************************************)
(* Model of plover/gui/keyboard_config.py: the key-capture dialog          *)
(* (EditKeysDialog), the keymap list editor (EditKeymapWidget) and the     *)
(* settings dialog (KeyboardConfigDialog).                                 *)
(*                                                                         *)
(* Spec is the whole program from the settings dialog's construction on,   *)
(* SpecCapture one capture dialog from its construction on, SpecRT one     *)
(* set_mappings followed by one get_mappings on a new list editor.         *)
(*                                                                         *)
(* A text (a Python string) is a sequence of one-character strings, so     *)
(* that ' '.join(...) and str.split() are computed character by character. *)
(* A key name is a text.  An ordered mapping (OrderedDict) is a sequence   *)
(* of [action, val] entries with distinct actions; val is tagged with the  *)
(* Python type the code tests with isinstance(key_list, basestring).       *)
(***************************************************************************)
EXTENDS Integers, Sequences, FiniteSets, TLC

----------------------------------------------------------------------------
(* Bounds of the model. *)

\* EditKeysDialog instances created (rows activated) in one run.
MaxEdits == 1
\* Key-down notifications queued by wx.CallAfter and not yet dispatched, in
\* the specification of the whole program.
MaxQueue == 1
\* The same, in the specification of one capture dialog.
MaxPending == 3
\* Longest key token, longest key list and longest pre-joined string of the
\* mappings given to set_mappings in the round-trip specification.
MaxTokLen == 2
MaxListLen == 2
MaxStrLen == 3

----------------------------------------------------------------------------
(* Texts. *)

\* Code points of the characters the model uses (sorted() compares strings
\* by code point).
Ord(c) ==
    CASE c = "\t" -> 9
      [] c = " " -> 32
      [] c = "+" -> 43
      [] c = "," -> 44
      [] c = "-" -> 45
      [] c = "N" -> 78
      [] c = "a" -> 97
      [] c = "b" -> 98
      [] c = "e" -> 101
      [] c = "n" -> 110
      [] c = "o" -> 111
      [] OTHER -> 0

\* The characters str.split() without arguments treats as separators.
IsSpace(c) == c \in {" ", "\t", "\n", "\r"}

\* s < t as Python compares strings.
RECURSIVE StrLess(_, _)
StrLess(s, t) ==
    IF t = <<>> THEN FALSE
    ELSE IF s = <<>> THEN TRUE
    ELSE IF Head(s) # Head(t) THEN Ord(Head(s)) < Ord(Head(t))
    ELSE StrLess(Tail(s), Tail(t))

\* sorted(S) for a set of strings.
RECURSIVE sorted(_)
sorted(S) ==
    IF S = {} THEN <<>>
    ELSE LET m == CHOOSE x \in S : \A y \in S \ {x} : StrLess(x, y)
         IN <<m>> \o sorted(S \ {m})

\* ' '.join(tokens)
RECURSIVE join(_)
join(tokens) ==
    IF tokens = <<>> THEN <<>>
    ELSE IF Len(tokens) = 1 THEN Head(tokens)
    ELSE Head(tokens) \o <<" ">> \o join(Tail(tokens))

\* The scan of str.split(): cur is the token being read, acc the tokens read.
RECURSIVE SplitScan(_, _, _)
SplitScan(text, cur, acc) ==
    IF text = <<>> THEN (IF cur = <<>> THEN acc ELSE Append(acc, cur))
    ELSE IF IsSpace(Head(text))
         THEN SplitScan(Tail(text), <<>>,
                        IF cur = <<>> THEN acc ELSE Append(acc, cur))
         ELSE SplitScan(Tail(text), Append(cur, Head(text)), acc)

\* text.split(): the maximal runs of non-whitespace characters, in order.
split_empty_as_token(text) == IF text = <<>> THEN << <<>> >> ELSE SplitScan(text, <<>>, <<>>)
split(text) == SplitScan(text, <<>>, <<>>)

\* set(seq)
SetOf(seq) == {seq[i] : i \in 1..Len(seq)}

NoneText == <<"N", "o", "n", "e">>

----------------------------------------------------------------------------
(* Ordered mappings. *)

StrVal(text) == [kind |-> "str", val |-> text]
ListVal(tokens) == [kind |-> "list", val |-> tokens]

\* The actions of an ordered mapping, in order.
Actions(od) == [i \in 1..Len(od) |-> od[i].action]

HasAction(od, a) == \E i \in 1..Len(od) : od[i].action = a

\* od[a] = v on an OrderedDict: an existing action keeps its place.
OdSet(od, a, v) ==
    IF HasAction(od, a)
    THEN [i \in 1..Len(od) |->
            IF od[i].action = a THEN [action |-> a, val |-> v] ELSE od[i]]
    ELSE Append(od, [action |-> a, val |-> v])

\* od.update(other)
RECURSIVE OdUpdate(_, _)
OdUpdate(od, other) ==
    IF other = <<>> THEN od
    ELSE OdUpdate(OdSet(od, Head(other).action, Head(other).val), Tail(other))

\* KeyboardMachine.DEFAULT_MAPPINGS (plover.machine.keyboard): a fixed
\* mapping from action to key list.
DEFAULT_MAPPINGS ==
    << [action |-> "A", val |-> ListVal(<< <<"a">>, <<"a", "b">> >>)],
       [action |-> "C", val |-> ListVal(<< <<"b">> >>)] >>

\* options.keymap (the keymap model collaborator): get_mappings() returns
\* the ordered mapping it holds, set_mappings(mappings) replaces it.
Keymap_get_mappings(keymap) == keymap
Keymap_set_mappings(keymap, mappings) == mappings

----------------------------------------------------------------------------
(* EditKeymapWidget: the rows are [action, text] records, top to bottom. *)

\* The text set_mappings puts in the key column for one key_list.
RowText_no_separator(key_list) ==
    IF key_list.kind = "str" THEN key_list.val
    ELSE LET RECURSIVE Cat(_)
             Cat(ts) == IF ts = <<>> THEN <<>> ELSE Head(ts) \o Cat(Tail(ts))
         IN Cat(key_list.val)
RowText(key_list) ==
    IF key_list.kind = "str" THEN key_list.val ELSE join(key_list.val)

\* set_mappings: DeleteAllItems, then one row per entry, in the mapping's
\* order.
set_mappings(mappings) ==
    [i \in 1..Len(mappings) |->
        [action |-> mappings[i].action, text |-> RowText(mappings[i].val)]]

\* get_mappings: rows read top to bottom into an OrderedDict.
RECURSIVE GetFrom(_, _)
GetFrom(rs, mappings) ==
    IF rs = <<>> THEN mappings
    ELSE GetFrom(Tail(rs),
                 OdSet(mappings, Head(rs).action, ListVal(split(Head(rs).text))))

get_mappings(rs) == GetFrom(rs, <<>>)

\* The new rows of on_reset: the rows read, updated with the defaults, and
\* loaded again.
reset_rows_replace(rs) == set_mappings(DEFAULT_MAPPINGS)
reset_rows(rs) == set_mappings(OdUpdate(get_mappings(rs), DEFAULT_MAPPINGS))

----------------------------------------------------------------------------
(* EditKeysDialog: pure parts. *)

\* The "Changes:" tokens of update_message: one pass over the sorted union.
RECURSIVE ChangesOf(_, _, _)
ChangesOf(ks, keys, original_keys) ==
    IF ks = <<>> THEN <<>>
    ELSE LET key == Head(ks)
             rest == ChangesOf(Tail(ks), keys, original_keys)
         IN IF key \notin original_keys THEN << <<"+">> \o key >> \o rest
            ELSE IF key \notin keys THEN << <<"-">> \o key >> \o rest
            ELSE rest

changes_only_added(keys, original_keys) ==
    LET RECURSIVE Added(_)
        Added(ks) == IF ks = <<>> THEN <<>>
                     ELSE IF Head(ks) \notin original_keys
                          THEN << <<"+">> \o Head(ks) >> \o Added(Tail(ks))
                          ELSE Added(Tail(ks))
    IN Added(sorted(keys \cup original_keys))
changes(keys, original_keys) ==
    ChangesOf(sorted(keys \cup original_keys), keys, original_keys)

\* The label update_message sets: the action, the keys ("None" when there
\* are none) and the changes ("None" when there are none).
message_of(action, keys, original_keys) ==
    [action  |-> action,
     keys    |-> IF keys # {} THEN join(sorted(keys)) ELSE NoneText,
     changes |-> IF changes(keys, original_keys) # <<>>
                 THEN join(changes(keys, original_keys)) ELSE NoneText]

\* The label of wx.StaticText(self) before the first update_message.
NoMessage == [action |-> "", keys |-> <<>>, changes |-> <<>>]

\* update_message on dialog d.
update_message(d) ==
    [d EXCEPT !.message = message_of(d.action, d.keys, d.original_keys)]

\* The working set after on_capture_key's if/else.
toggle_always_add(keys, key) == keys \cup {key}
toggle(keys, key) == IF key \in keys THEN keys \ {key} ELSE keys \cup {key}

\* The working set after on_clear's self.keys.clear().
cleared_to_original(d) == d.original_keys
cleared(d) == {}

\* EditKeysDialog.__init__
new_dialog(action, keys) ==
    [action        |-> action,
     keys          |-> SetOf(keys),
     original_keys |-> SetOf(keys),
     message       |-> NoMessage,
     capture       |-> "new",
     cancels       |-> 0]

\* The key column edit_item writes after a confirmed dialog (line 100).
confirmed_text(d) == join(sorted(d.keys))

----------------------------------------------------------------------------
(* State. *)

VARIABLES
    options,     \* the caller's options object: [arpeggiate, keymap]
    pre_options, \* the caller's options when the dialog was constructed
    config,      \* the persisted frame position: [x, y]
    checkbox,    \* arpeggiate_option's value
    rows,        \* keymap_widget's rows
    kcPc,        \* KeyboardConfigDialog.ShowModal: where the UI thread is
    kcCode,      \* the code KeyboardConfigDialog.ShowModal returned
    edits,       \* the number of EditKeysDialog instances created
    dlgs,        \* the EditKeysDialog instances still referred to, by number
    ekPc,        \* edit_item / EditKeysDialog.ShowModal: where the UI thread is
    ekCode,      \* ShowModal's local code, or "EXC": an exception is raised
    itemIndex,   \* event.m_itemIndex of the edit_item in progress (0: none)
    handler,     \* the EditKeysDialog handler the UI thread is inside
    queue,       \* wx.CallAfter's pending calls of on_capture_key, oldest first
    rt           \* the round-trip specification's input, position and output

vars == <<options, pre_options, config, checkbox, rows, kcPc, kcCode, edits,
          dlgs, ekPc, ekCode, itemIndex, handler, queue, rt>>

\* No EditKeysDialog handler is running.
Idle == [op |-> "idle", dlg |-> 0]

\* The keys the capture listener reports.
CaptureKeys == { <<"a">>, <<"b">> }

\* The frame positions a move event reports.
Positions == { <<0, 0>>, <<3, 4>> }

\* The keymap the caller opens the dialog with: one key list given as a
\* pre-joined string with a double space, one as an unsorted list.
InitKeymap ==
    << [action |-> "B", val |-> StrVal(<<"a", "b", " ", " ", "a">>)],
       [action |-> "A", val |-> ListVal(<< <<"b">>, <<"a">> >>)] >>

RtOff == [pc |-> "off", m |-> <<>>, out |-> <<>>]

\* The state after KeyboardConfigDialog.__init__: the checkbox and the rows
\* are loaded from the caller's options.
Init ==
    /\ options = [arpeggiate |-> TRUE, keymap |-> InitKeymap]
    /\ pre_options = options
    /\ config = [x |-> 0, y |-> 0]
    /\ checkbox = options.arpeggiate
    /\ rows = set_mappings(Keymap_get_mappings(options.keymap))
    /\ kcPc = "constructed"
    /\ kcCode = "none"
    /\ edits = 0
    /\ dlgs = <<>>
    /\ ekPc = "none"
    /\ ekCode = "none"
    /\ itemIndex = 0
    /\ handler = Idle
    /\ queue = <<>>
    /\ rt = RtOff

\* The dialog the edit_item in progress created.
cur == edits

\* A closed dialog is referred to only by the pending calls its listener
\* queued: the dialogs kept are the open one and those a pending call is
\* bound to.
Live(ds, q, open) ==
    LET keep == {d \in DOMAIN ds :
                    d = open \/ \E i \in 1..Len(q) : q[i].dlg = d}
    IN [d \in keep |-> ds[d]]

\* The settings dialog's modal loop is dispatching and no capture dialog
\* is open on top of it.
KcDispatching == kcPc = "modal" /\ ekPc = "none" /\ handler = Idle

\* The capture dialog's modal loop is dispatching.
EkDispatching == ekPc = "modal" /\ handler = Idle

kcVars == <<options, pre_options, config, checkbox, rows, kcPc, kcCode>>

----------------------------------------------------------------------------
(* KeyboardConfigDialog. *)

\* ShowModal, line 169: the modal loop starts.
KC_ShowModal ==
    /\ kcPc = "constructed"
    /\ kcPc' = "modal"
    /\ UNCHANGED <<options, pre_options, config, checkbox, rows, kcCode,
                   edits, dlgs, ekPc, ekCode, itemIndex, handler, queue, rt>>

\* The user clicks the arpeggiate checkbox.
on_checkbox ==
    /\ KcDispatching
    /\ checkbox' = ~checkbox
    /\ UNCHANGED <<options, pre_options, config, rows, kcPc, kcCode,
                   edits, dlgs, ekPc, ekCode, itemIndex, handler, queue, rt>>

\* on_move: the position is persisted on every move event.
on_move(pos) ==
    /\ KcDispatching
    /\ config' = [x |-> pos[1], y |-> pos[2]]
    /\ UNCHANGED <<options, pre_options, checkbox, rows, kcPc, kcCode,
                   edits, dlgs, ekPc, ekCode, itemIndex, handler, queue, rt>>

\* on_reset
on_reset ==
    /\ KcDispatching
    /\ rows' = reset_rows(rows)
    /\ UNCHANGED <<options, pre_options, config, checkbox, kcPc, kcCode,
                   edits, dlgs, ekPc, ekCode, itemIndex, handler, queue, rt>>

\* The options after ShowModal's lines 170-173.
commit_always(code) ==
    [arpeggiate |-> checkbox,
     keymap     |-> Keymap_set_mappings(options.keymap, get_mappings(rows))]
commit(code) ==
    IF code = "OK"
    THEN [arpeggiate |-> checkbox,
          keymap     |-> Keymap_set_mappings(options.keymap, get_mappings(rows))]
    ELSE options

\* ShowModal, lines 169-174: the OK or the Cancel button ends the modal loop
\* (lines 164-165; closing the window ends it with the Cancel code), the
\* options are written on OK, and the code is returned.
KC_return(code) ==
    /\ KcDispatching
    /\ options' = commit(code)
    /\ kcCode' = code
    /\ kcPc' = "returned"
    /\ UNCHANGED <<pre_options, config, checkbox, rows,
                   edits, dlgs, ekPc, ekCode, itemIndex, handler, queue, rt>>

----------------------------------------------------------------------------
(* EditKeymapWidget.edit_item and EditKeysDialog.ShowModal, on the UI      *)
(* thread.  ekPc is the statement the UI thread executes next.             *)

\* edit_item, lines 92-96: the dialog is created from the activated row.
edit_item(index) ==
    /\ KcDispatching
    /\ edits < MaxEdits
    /\ index \in 1..Len(rows)
    /\ edits' = edits + 1
    /\ dlgs' = (edits + 1 :> new_dialog(rows[index].action,
                                        split(rows[index].text))) @@ dlgs
    /\ itemIndex' = index
    /\ ekPc' = "update_message"
    /\ UNCHANGED <<kcVars, ekCode, handler, queue, rt>>

\* ShowModal, line 43.
EK_update_message ==
    /\ ekPc = "update_message"
    /\ dlgs' = [dlgs EXCEPT ![cur] = update_message(@)]
    /\ ekPc' = "start"
    /\ UNCHANGED <<kcVars, edits, ekCode, itemIndex, handler, queue, rt>>

\* ShowModal, line 44: capture.start() starts the listener, or raises (the
\* listener is a thread; starting one can fail) and the exception leaves
\* ShowModal, the try statement not yet entered.
EK_start ==
    /\ ekPc = "start"
    /\ \/ /\ dlgs' = [dlgs EXCEPT ![cur].capture = "running"]
          /\ ekPc' = "suppress"
          /\ ekCode' = ekCode
       \/ /\ dlgs' = dlgs
          /\ ekPc' = "propagating"
          /\ ekCode' = "EXC"
    /\ UNCHANGED <<kcVars, edits, itemIndex, handler, queue, rt>>

\* ShowModal, line 47: suppress_keyboard returns, or raises inside the try.
EK_suppress ==
    /\ ekPc = "suppress"
    /\ \/ /\ ekPc' = "modal"
          /\ ekCode' = ekCode
       \/ /\ ekPc' = "finally"
          /\ ekCode' = "EXC"
    /\ UNCHANGED <<kcVars, edits, dlgs, itemIndex, handler, queue, rt>>

\* on_clear, line 70.
on_clear ==
    /\ EkDispatching
    /\ dlgs' = [dlgs EXCEPT ![cur].keys = cleared(dlgs[cur])]
    /\ handler' = [op |-> "on_clear", dlg |-> cur]
    /\ UNCHANGED <<kcVars, edits, ekPc, ekCode, itemIndex, queue, rt>>

\* The event loop runs the oldest pending wx.CallAfter call:
\* on_capture_key, lines 74-77, on the dialog whose listener queued it.
\* The loop is the capture dialog's or, that dialog closed, the settings
\* dialog's; a call still pending when the settings dialog returns is bound
\* to a closed capture dialog and is left pending.
on_capture_key ==
    /\ queue # <<>>
    /\ handler = Idle
    /\ \/ ekPc = "modal"
       \/ ekPc = "none" /\ kcPc = "modal"
    /\ LET call == Head(queue)
       IN /\ dlgs' = [dlgs EXCEPT ![call.dlg].keys = toggle(@, call.key)]
          /\ handler' = [op |-> "on_capture_key", dlg |-> call.dlg]
    /\ queue' = Tail(queue)
    /\ UNCHANGED <<kcVars, edits, ekPc, ekCode, itemIndex, rt>>

\* on_clear, line 71, and on_capture_key, line 78: update_message, which
\* ends the handler.
handler_update_message ==
    /\ handler # Idle
    /\ dlgs' = Live([dlgs EXCEPT ![handler.dlg] = update_message(@)],
                    queue, IF ekPc = "none" THEN 0 ELSE cur)
    /\ handler' = Idle
    /\ UNCHANGED <<kcVars, edits, ekPc, ekCode, itemIndex, queue, rt>>

\* ShowModal, line 48: the modal loop ends with OK or Cancel (a forced
\* close ends it with Cancel).
EK_EndModal(code) ==
    /\ EkDispatching
    /\ ekCode' = code
    /\ ekPc' = "finally"
    /\ UNCHANGED <<kcVars, edits, dlgs, itemIndex, handler, queue, rt>>

\* ShowModal, line 48: the modal run raises.
EK_modal_raises ==
    /\ EkDispatching
    /\ ekCode' = "EXC"
    /\ ekPc' = "finally"
    /\ UNCHANGED <<kcVars, edits, dlgs, itemIndex, handler, queue, rt>>

\* ShowModal, lines 49-50: what the finally clause does to the dialog's
\* capture, code being the code returned or "EXC".
finally_unless_raised(d, code) ==
    IF code = "EXC" THEN d
    ELSE [d EXCEPT !.capture = "cancelled", !.cancels = @ + 1]
finally(d, code) == [d EXCEPT !.capture = "cancelled", !.cancels = @ + 1]

\* ShowModal, lines 49-51: the finally clause, then the return of the code
\* or the exception going on.
EK_finally ==
    /\ ekPc = "finally"
    /\ dlgs' = [dlgs EXCEPT ![cur] = finally(@, ekCode)]
    /\ ekPc' = IF ekCode = "EXC" THEN "propagating" ELSE "returned"
    /\ UNCHANGED <<kcVars, edits, ekCode, itemIndex, handler, queue, rt>>

\* The rows after edit_item's lines 97-101, ShowModal having returned code.
rows_after_edit_any_code(d, index, code) ==
    [rows EXCEPT ![index].text = confirmed_text(d)]
rows_after_edit(d, index, code) ==
    IF code # "OK" THEN rows
    ELSE [rows EXCEPT ![index].text = confirmed_text(d)]

\* edit_item, lines 97-101.
edit_item_return ==
    /\ ekPc = "returned"
    /\ rows' = rows_after_edit(dlgs[cur], itemIndex, ekCode)
    /\ dlgs' = Live(dlgs, queue, 0)
    /\ ekPc' = "none"
    /\ ekCode' = "none"
    /\ itemIndex' = 0
    /\ UNCHANGED <<options, pre_options, config, checkbox, kcPc, kcCode,
                   edits, handler, queue, rt>>

\* An exception of ShowModal leaves edit_item at line 97 and is reported by
\* the event loop, which goes on.
edit_item_raises ==
    /\ ekPc = "propagating"
    /\ dlgs' = Live(dlgs, queue, 0)
    /\ ekPc' = "none"
    /\ ekCode' = "none"
    /\ itemIndex' = 0
    /\ UNCHANGED <<kcVars, edits, handler, queue, rt>>

----------------------------------------------------------------------------
(* The capture listener's thread. *)

\* capture.key_down, line 40: the listener of dialog d reports a key; the
\* lambda queues on_capture_key with wx.CallAfter.
key_down_direct(d, key) ==
    /\ queue' = queue
    /\ dlgs' = [dlgs EXCEPT ![d].keys = toggle(@, key)]
key_down(d, key) ==
    /\ queue' = Append(queue, [dlg |-> d, key |-> key])
    /\ dlgs' = dlgs

\* The listener thread of a started, not yet cancelled, capture.
Listener(bound) ==
    /\ Len(queue) < bound
    /\ \E d \in DOMAIN dlgs, key \in CaptureKeys :
          /\ dlgs[d].capture = "running"
          /\ key_down(d, key)
    /\ UNCHANGED <<kcVars, edits, ekPc, ekCode, itemIndex, handler, rt>>

----------------------------------------------------------------------------
(* The whole program: the settings dialog from its construction on. *)

Next ==
    \/ KC_ShowModal
    \/ on_checkbox
    \/ \E pos \in Positions : on_move(pos)
    \/ on_reset
    \/ \E code \in {"OK", "CANCEL"} : KC_return(code)
    \/ \E index \in 1..Len(rows) : edit_item(index)
    \/ EK_update_message
    \/ EK_start
    \/ EK_suppress
    \/ on_clear
    \/ on_capture_key
    \/ handler_update_message
    \/ \E code \in {"OK", "CANCEL"} : EK_EndModal(code)
    \/ EK_modal_raises
    \/ EK_finally
    \/ edit_item_return
    \/ edit_item_raises
    \/ Listener(MaxQueue)

Spec == Init /\ [][Next]_vars

----------------------------------------------------------------------------
(* One capture dialog: edit_item has created the dialog for the activated  *)
(* row (line 96) and is about to call its ShowModal.                       *)

\* The key-column texts of the activated row.
CaptureTexts ==
    { <<>>,
      <<"a">>,
      <<"b", " ", "a">>,
      <<"a", "b", " ", " ", "a">>,
      <<"a", " ", "a", "b", " ", "b">> }

InitCapture ==
    /\ options = [arpeggiate |-> TRUE, keymap |-> InitKeymap]
    /\ pre_options = options
    /\ config = [x |-> 0, y |-> 0]
    /\ checkbox = options.arpeggiate
    /\ \E text \in CaptureTexts :
          rows = << [action |-> "B", text |-> <<"b">>],
                    [action |-> "A", text |-> text] >>
    /\ kcPc = "modal"
    /\ kcCode = "none"
    /\ edits = 1
    /\ itemIndex = 2
    /\ dlgs = (1 :> new_dialog(rows[itemIndex].action,
                               split(rows[itemIndex].text)))
    /\ ekPc = "update_message"
    /\ ekCode = "none"
    /\ handler = Idle
    /\ queue = <<>>
    /\ rt = RtOff

NextCapture ==
    \/ EK_update_message
    \/ EK_start
    \/ EK_suppress
    \/ on_clear
    \/ on_capture_key
    \/ handler_update_message
    \/ \E code \in {"OK", "CANCEL"} : EK_EndModal(code)
    \/ EK_modal_raises
    \/ EK_finally
    \/ edit_item_return
    \/ edit_item_raises
    \/ Listener(MaxPending)

SpecCapture == InitCapture /\ [][NextCapture]_vars

----------------------------------------------------------------------------
(* Round trip: a new EditKeymapWidget is loaded with set_mappings(m) and   *)
(* read with get_mappings().                                               *)

\* The texts of at most n characters of chars (the sequences of at most n
\* elements of chars).
SeqsUpTo(chars, n) == UNION {[1..k -> chars] : k \in 0..n}

\* The characters of the key tokens and of the pre-joined strings.
TokenChars == {" ", "a"}
StrChars == {" ", "\t", "a", ","}

\* The key lists given for one action.
RtValues ==
    {ListVal(l) : l \in SeqsUpTo(SeqsUpTo(TokenChars, MaxTokLen), MaxListLen)}
      \cup {StrVal(t) : t \in SeqsUpTo(StrChars, MaxStrLen)}

\* The key lists of the action given before it, when there is one.
RtFirst == {ListVal(<< <<"b">>, <<"a">> >>), StrVal(<<"a", " ", " ", "b">>)}

\* The mappings loaded: action A alone, or B then A.
RtMappings ==
    {<< [action |-> "A", val |-> v] >> : v \in RtValues}
      \cup {<< [action |-> "B", val |-> w], [action |-> "A", val |-> v] >> :
               w \in RtFirst, v \in RtValues}

\* The state after EditKeymapWidget.__init__: no rows.
InitRT ==
    /\ options = [arpeggiate |-> TRUE, keymap |-> InitKeymap]
    /\ pre_options = options
    /\ config = [x |-> 0, y |-> 0]
    /\ checkbox = options.arpeggiate
    /\ rows = <<>>
    /\ kcPc = "constructing"
    /\ kcCode = "none"
    /\ edits = 0
    /\ dlgs = <<>>
    /\ ekPc = "none"
    /\ ekCode = "none"
    /\ itemIndex = 0
    /\ handler = Idle
    /\ queue = <<>>
    /\ rt \in [pc : {"set"}, m : RtMappings, out : {<<>>}]

\* set_mappings(m)
RT_set_mappings ==
    /\ rt.pc = "set"
    /\ rows' = set_mappings(rt.m)
    /\ rt' = [rt EXCEPT !.pc = "get"]
    /\ UNCHANGED <<options, pre_options, config, checkbox, kcPc, kcCode,
                   edits, dlgs, ekPc, ekCode, itemIndex, handler, queue>>

\* get_mappings()
RT_get_mappings ==
    /\ rt.pc = "get"
    /\ rt' = [rt EXCEPT !.pc = "done", !.out = get_mappings(rows)]
    /\ UNCHANGED <<kcVars, edits, dlgs, ekPc, ekCode, itemIndex, handler,
                   queue>>

NextRT ==
    \/ RT_set_mappings
    \/ RT_get_mappings

SpecRT == InitRT /\ [][NextRT]_vars

----------------------------------------------------------------------------
(* What the claims are stated with: written from the claims' words, not    *)
(* from the code's loops.                                                  *)

\* [i, j] is a maximal run of non-whitespace characters of text.
IsTokenSpan(text, i, j) ==
    /\ i <= j
    /\ \A k \in i..j : ~IsSpace(text[k])
    /\ i = 1 \/ IsSpace(text[i - 1])
    /\ j = Len(text) \/ IsSpace(text[j + 1])

\* The whitespace-separated tokens of text, left to right.
Tokens(text) ==
    LET spans == {sp \in (1..Len(text)) \X (1..Len(text)) :
                     IsTokenSpan(text, sp[1], sp[2])}
        n == Cardinality(spans)
        order == CHOOSE f \in [1..n -> spans] :
                     \A a, b \in 1..n : a < b => f[a][1] < f[b][1]
    IN [k \in 1..n |-> SubSeq(text, order[k][1], order[k][2])]

AllSpace(text) == \A k \in 1..Len(text) : IsSpace(text[k])

\* The key tokens an entry of a mapping gives: the list's elements, or the
\* tokens of the pre-joined string.
KeyTokens(val) == IF val.kind = "list" THEN val.val ELSE Tokens(val.val)

\* The mapping the rows display: per row, the action and the tokens of the
\* key column.
Displayed(rs) ==
    [i \in 1..Len(rs) |->
        [action |-> rs[i].action, val |-> ListVal(Tokens(rs[i].text))]]

RECURSIVE SumLen(_)
SumLen(toks) == IF toks = <<>> THEN 0 ELSE Len(Head(toks)) + SumLen(Tail(toks))

\* text is toks joined by single spaces.
IsSpaceJoined(text, toks) ==
    /\ Tokens(text) = toks
    /\ \A k \in 1..Len(text) : IsSpace(text[k]) => text[k] = " "
    /\ Len(text) = SumLen(toks) + (IF toks = <<>> THEN 0 ELSE Len(toks) - 1)

\* text is the keys of the set ks, each once, in increasing order, joined
\* by single spaces.
IsSortedText(text, ks) ==
    LET toks == Tokens(text)
    IN /\ IsSpaceJoined(text, toks)
       /\ SetOf(toks) = ks
       /\ Len(toks) = Cardinality(ks)
       /\ \A a, b \in 1..Len(toks) : a < b => StrLess(toks[a], toks[b])

\* text is +k for each k of plus and -k for each k of minus, each once, in
\* increasing order of k, joined by single spaces; "None" when there is none.
IsDiffText(text, plus, minus) ==
    IF plus \cup minus = {} THEN text = NoneText
    ELSE LET toks == Tokens(text)
         IN /\ text # NoneText
            /\ IsSpaceJoined(text, toks)
            /\ SetOf(toks) = {<<"+">> \o k : k \in plus}
                               \cup {<<"-">> \o k : k \in minus}
            /\ Len(toks) = Cardinality(plus) + Cardinality(minus)
            /\ \A a, b \in 1..Len(toks) :
                  a < b => StrLess(Tail(toks[a]), Tail(toks[b]))

\* The entry of action a in the ordered mapping od.
Entry(od, a) == od[CHOOSE i \in 1..Len(od) : od[i].action = a]

\* A step that runs a pending call: the event loop takes the oldest one.
IsDispatch == queue # <<>> /\ queue' = Tail(queue)

----------------------------------------------------------------------------
(* EditKeysDialog.ShowModal and the capture listener (SpecCapture). *)

\* ShowModal has returned its code, or its exception is leaving it.
ShowModalLeft == ekPc \in {"returned", "propagating"}

\* C1, as claimed: on every exit path of EditKeysDialog.ShowModal, an
\* exception raised while the capture is being set up included, the
\* listener has been stopped exactly once when ShowModal returns or the
\* exception propagates.
C1_StoppedOnceOnEveryExit ==
    ShowModalLeft => dlgs[cur].cancels = 1

\* C1, amended: once capture.start() has returned, the listener is stopped
\* exactly once on every exit path of ShowModal (OK, Cancel, forced close,
\* an exception of suppress_keyboard or of the modal run), before ShowModal
\* returns or the exception propagates, and it runs until then; when
\* capture.start() itself raises, the listener was never started and is
\* never stopped.  No listener is stopped twice.
C1_StoppedOnceAfterStart ==
    /\ \A d \in DOMAIN dlgs : dlgs[d].cancels <= 1
    /\ ekPc \in {"suppress", "modal", "finally"} =>
          dlgs[cur].capture = "running" /\ dlgs[cur].cancels = 0
    /\ ShowModalLeft /\ dlgs[cur].capture # "new" =>
          dlgs[cur].capture = "cancelled" /\ dlgs[cur].cancels = 1
    /\ ShowModalLeft /\ dlgs[cur].capture = "new" =>
          ekCode = "EXC" /\ dlgs[cur].cancels = 0

\* An exception of the modal run or of suppress_keyboard is propagating and
\* the listener has been stopped.
C1_Witness ==
    /\ ekPc = "propagating"
    /\ dlgs[cur].capture = "cancelled"
    /\ dlgs[cur].cancels = 1

C8_CaptureToggles ==
    /\ [](\A d \in DOMAIN dlgs : \A key \in CaptureKeys :
             toggle(toggle(dlgs[d].keys, key), key) = dlgs[d].keys)
    /\ [][IsDispatch =>
            LET call == Head(queue)
                d == call.dlg
            IN /\ DOMAIN dlgs' = DOMAIN dlgs
               /\ call.key \in dlgs'[d].keys <=> call.key \notin dlgs[d].keys
               /\ dlgs'[d].keys \ {call.key} = dlgs[d].keys \ {call.key}
               /\ dlgs'[d].original_keys = dlgs[d].original_keys
               /\ \A e \in DOMAIN dlgs \ {d} : dlgs'[e] = dlgs[e]
               /\ rows' = rows]_vars

\* Key a, of the original keys, has been captured and so removed; key ab,
\* which the listener never reports, is still there.
C8_Witness ==
    /\ handler = Idle
    /\ ekPc = "modal"
    /\ dlgs[cur].original_keys = { <<"a">>, <<"a", "b">> }
    /\ dlgs[cur].keys = { <<"a", "b">> }
    /\ dlgs[cur].message.changes = <<"-", "a">>

\* C9: the clear action leaves the working set empty, whatever it held, and
\* the snapshot of the original keys as it was; the changes shown when the
\* clear handler ends are -k for every original key k, in increasing order,
\* or "None" when there is no original key.
C9_ClearEmpties ==
    /\ [][handler = Idle /\ handler'.op = "on_clear" =>
            /\ dlgs'[cur].keys = {}
            /\ dlgs'[cur].original_keys = dlgs[cur].original_keys]_vars
    /\ [][handler.op = "on_clear" /\ handler' = Idle =>
            /\ dlgs'[cur].keys = {}
            /\ dlgs'[cur].original_keys = dlgs[cur].original_keys
            /\ IsDiffText(dlgs'[cur].message.changes, {},
                          dlgs[cur].original_keys)]_vars

\* All three original keys are shown removed; ab, which the listener never
\* reports, can only have been removed by a clear.
C9_Witness ==
    /\ handler = Idle
    /\ ekPc = "modal"
    /\ dlgs[cur].keys = {}
    /\ dlgs[cur].original_keys = { <<"a">>, <<"a", "b">>, <<"b">> }
    /\ dlgs[cur].message.changes =
          <<"-", "a", " ", "-", "a", "b", " ", "-", "b">>

\* C10: the working sets change only in a step that starts a handler on the
\* UI thread; a key-down notification only appends a call to the pending
\* queue; a pending call runs only when the UI thread is in no handler and
\* in an event loop, oldest first, as one toggle of the key it carries; and
\* once the dialog is closed no step, a late call included, changes a row.
C10_MarshalledToUiThread ==
    /\ [][(\E d \in DOMAIN dlgs \cap DOMAIN dlgs' :
              dlgs'[d].keys # dlgs[d].keys)
            => handler = Idle /\ handler' # Idle]_vars
    /\ [][Len(queue') > Len(queue) =>
            /\ Len(queue') = Len(queue) + 1
            /\ SubSeq(queue', 1, Len(queue)) = queue
            /\ dlgs' = dlgs
            /\ handler' = handler
            /\ rows' = rows]_vars
    /\ [][Len(queue') < Len(queue) =>
            /\ queue' = Tail(queue)
            /\ handler = Idle
            /\ ekPc \in {"modal", "none"}
            /\ handler' = [op |-> "on_capture_key", dlg |-> Head(queue).dlg]
            /\ dlgs'[Head(queue).dlg].keys =
                  toggle(dlgs[Head(queue).dlg].keys, Head(queue).key)
            /\ rows' = rows]_vars
    /\ [][ekPc = "none" => rows' = rows]_vars

\* The dialog opened on "b a" was confirmed and "a b" written to the row;
\* a call that was still pending has since removed key a from the closed
\* dialog's working set.
C10_Witness ==
    /\ ekPc = "none"
    /\ handler.op = "on_capture_key"
    /\ rows[2].text = <<"a", " ", "b">>
    /\ dlgs[handler.dlg].keys = { <<"b">> }

----------------------------------------------------------------------------
(* KeyboardConfigDialog and EditKeymapWidget.edit_item (Spec). *)

\* C2: the caller's options keep their pre-dialog values while the dialog
\* is open and when it has closed with Cancel, whatever was toggled, edited,
\* reset or moved; when it has closed with OK they are the checkbox value
\* and the mapping the rows display.
C2_OptionsCommittedOnlyOnOK ==
    /\ kcPc # "returned" => options = pre_options
    /\ kcPc = "returned" /\ kcCode = "CANCEL" => options = pre_options
    /\ kcPc = "returned" /\ kcCode = "OK" =>
          /\ options.arpeggiate = checkbox
          /\ options.keymap = Displayed(rows)

\* Closed with Cancel after the checkbox was cleared, the window moved and
\* the first row edited.
C2_Witness ==
    /\ kcPc = "returned"
    /\ kcCode = "CANCEL"
    /\ checkbox = FALSE
    /\ config # [x |-> 0, y |-> 0]
    /\ rows[1].text = <<"b">>
    /\ options.arpeggiate = TRUE

\* edit_item returns from its dialog's ShowModal.
IsEditReturn == ekPc = "returned" /\ ekPc' = "none"

\* C4: when edit_item returns from a confirmed dialog, the activated row's
\* key column is the dialog's final working set as sorted, space-joined
\* text; when it returns from a cancelled one, the key column is as it was;
\* either way the actions, the other rows and the number and order of the
\* rows are as they were, and no step of the dialog before that changes a
\* row.
C4_EditItemFrame ==
    /\ [][IsEditReturn =>
            /\ Len(rows') = Len(rows)
            /\ \A i \in 1..Len(rows) :
                  /\ rows'[i].action = rows[i].action
                  /\ i # itemIndex => rows'[i] = rows[i]
            /\ ekCode = "OK" =>
                  IsSortedText(rows'[itemIndex].text, dlgs[cur].keys)
            /\ ekCode # "OK" =>
                  rows'[itemIndex].text = rows[itemIndex].text]_vars
    /\ [][ekPc # "none" /\ ~IsEditReturn => rows' = rows]_vars

\* Row A ("b a" at first) was activated, key a captured away, and the
\* dialog confirmed: its key column reads "b".
C4_Witness ==
    /\ ekPc = "none"
    /\ edits = 1
    /\ Len(rows) = 2
    /\ rows[1] = [action |-> "B", text |-> <<"a", "b", " ", " ", "a">>]
    /\ rows[2] = [action |-> "A", text |-> <<"b">>]

\* The mapping after is the mapping before merged with the defaults.
IsMerged(before, after) ==
    /\ \A i \in 1..Len(DEFAULT_MAPPINGS) :
          /\ HasAction(after, DEFAULT_MAPPINGS[i].action)
          /\ Entry(after, DEFAULT_MAPPINGS[i].action).val.val
                = KeyTokens(DEFAULT_MAPPINGS[i].val)
    /\ \A i \in 1..Len(before) :
          /\ after[i].action = before[i].action
          /\ ~HasAction(DEFAULT_MAPPINGS, before[i].action)
                => after[i].val = before[i].val
    /\ \A i \in 1..Len(after) :
          HasAction(before, after[i].action)
             \/ HasAction(DEFAULT_MAPPINGS, after[i].action)
    /\ \A i, j \in 1..Len(after) :
          i # j => after[i].action # after[j].action

\* C6: a step of the settings dialog, no capture dialog open, that changes
\* the rows (Reset-to-default) leaves displayed the mapping displayed
\* before merged with the default mapping: every default action has the
\* default's key list, every other action keeps its key list and its place,
\* and no action is removed.
C6_ResetMerges ==
    /\ [](KcDispatching => IsMerged(Displayed(rows),
                                    Displayed(reset_rows(rows))))
    /\ [][ekPc = "none" /\ ekPc' = "none" /\ rows' # rows =>
            IsMerged(Displayed(rows), Displayed(rows'))]_vars

\* Reset pressed on {B: [ab, a], A: [b, a]} with the default
\* {A: [a, ab], C: [b]}: B is kept, A overwritten, C added.
C6_Witness ==
    /\ edits = 0
    /\ rows = << [action |-> "B", text |-> <<"a", "b", " ", "a">>],
                 [action |-> "A", text |-> <<"a", " ", "a", "b">>],
                 [action |-> "C", text |-> <<"b">>] >>

----------------------------------------------------------------------------
(* EditKeymapWidget.set_mappings and get_mappings (SpecRT). *)

\* No key token of a key list of m holds a whitespace character.
NoWhitespaceInTokens(m) ==
    \A i \in 1..Len(m) :
        m[i].val.kind = "list" =>
            \A t \in 1..Len(m[i].val.val) :
                \A k \in 1..Len(m[i].val.val[t]) : ~IsSpace(m[i].val.val[t][k])

\* No key token of a key list of m is the empty string.
NoEmptyToken(m) ==
    \A i \in 1..Len(m) :
        m[i].val.kind = "list" =>
            \A t \in 1..Len(m[i].val.val) : m[i].val.val[t] # <<>>

\* out has m's actions in m's order and, per action, m's key tokens in
\* order.
SameMapping(m, out) ==
    /\ Len(out) = Len(m)
    /\ \A i \in 1..Len(m) :
          /\ out[i].action = m[i].action
          /\ out[i].val = ListVal(KeyTokens(m[i].val))

\* C3, as claimed: for every mapping m whose key tokens contain no
\* whitespace, set_mappings(m) then get_mappings() yields m's actions in
\* order with m's key tokens in order.
C3_RoundTripNoWhitespace ==
    rt.pc = "done" /\ NoWhitespaceInTokens(rt.m) => SameMapping(rt.m, rt.out)

\* C3, amended: for every mapping m whose key tokens are non-empty and
\* contain no whitespace, set_mappings(m) then get_mappings() yields m's
\* actions in order with m's key tokens in order, the keys given as a list
\* of tokens or as one pre-joined string.
C3_RoundTrip ==
    rt.pc = "done" /\ NoWhitespaceInTokens(rt.m) /\ NoEmptyToken(rt.m)
        => SameMapping(rt.m, rt.out)

\* Two actions, the first given as a pre-joined string, the second as a
\* list of two tokens, read back.
C3_Witness ==
    /\ rt.pc = "done"
    /\ Len(rt.m) = 2
    /\ rt.m[1].val = StrVal(<<"a", " ", " ", "b">>)
    /\ rt.m[2].val = ListVal(<< <<"a", "a">>, <<"a">> >>)
    /\ rt.out[1].val = ListVal(<< <<"a">>, <<"b">> >>)
    /\ rt.out[2].val = ListVal(<< <<"a", "a">>, <<"a">> >>)

\* The key-column text is empty or separated by something other than
\* whitespace.
Malformed(text) == text = <<>> \/ \E k \in 1..Len(text) : text[k] = ","

\* C7, as claimed: a row whose key-column text is malformed
\* (non-whitespace-separated or empty) reads as the empty key list.
C7_MalformedReadsEmpty ==
    rt.pc = "done" =>
        \A i \in 1..Len(rows) :
            Malformed(rows[i].text) => rt.out[i].val = ListVal(<<>>)

\* C7, amended: get_mappings reads every row, whatever its key-column text:
\* an empty or all-whitespace text as the empty key list, any other text as
\* the non-empty list of its whitespace-separated tokens, so that text
\* separated by something else, such as "a,a", reads as the one token "a,a".
C7_ReadOfAnyText ==
    rt.pc = "done" =>
        /\ Len(rt.out) = Len(rows)
        /\ \A i \in 1..Len(rows) :
              /\ rt.out[i].action = rows[i].action
              /\ rt.out[i].val.kind = "list"
              /\ AllSpace(rows[i].text) <=> rt.out[i].val.val = <<>>
              /\ rt.out[i].val.val = Tokens(rows[i].text)

\* The comma-separated text "a,a" has been read as one key.
C7_Witness ==
    /\ rt.pc = "done"
    /\ rows[1].text = <<"a", ",", "a">>
    /\ rt.out[1].val = ListVal(<< <<"a", ",", "a">> >>)

====
